---------------------------- MODULE Spec2Model ----------------------------
(***************************************************************************)
(* A model of the HOCON parser of parser.go: the recursive-descent         *)
(* extractor (extractConfigObject, extractConfigArray, extractConfigValue, *)
(* extractSubstitution), the include resolver and the substitution         *)
(* resolver, as a state machine with an explicit call stack.               *)
(*                                                                         *)
(* The lexer (text/scanner) is an external collaborator.  A document is a  *)
(* sequence of tokens; every token carries its text, the rune Scan returns *)
(* for it (its kind) and whether white space follows it in the source,     *)
(* which is what Peek (the character after the current token) observes.    *)
(***************************************************************************)
EXTENDS Naturals, Sequences, FiniteSets, TLC

VARIABLES
    doc,        \* the tokens of the document given to ParseString
    inc,        \* the tokens of the resource an include directive may name
    scanners,   \* the stack of scanners: the document's, then an include's
    stack,      \* the call stack of the extractor
    ret,        \* the value the last returning call handed to its caller
    phase,      \* "parse", "resolve" or "done"
    heap,       \* the value tree in memory, by address
    rstack,     \* the call stack of resolveSubstitutions
    result      \* what parse() returned

vars == <<doc, inc, scanners, stack, ret, phase, heap, rstack, result>>

-----------------------------------------------------------------------------
(* Tokens (parser.go:15-26) and the forbidden characters (parser.go:28-32). *)

equalsToken == "="
commaToken == ","
colonToken == ":"
dotToken == "."
objectStartToken == "{"
objectEndToken == "}"
arrayStartToken == "["
arrayEndToken == "]"
includeToken == "include"

forbiddenCharacters ==
    { "$", "\"", objectStartToken, objectEndToken, arrayStartToken, arrayEndToken,
      colonToken, equalsToken, commaToken, "+", "#", "BACKQUOTE", "^", "?",
      "!", "@", "*", "&", "\\", "(", ")" }

(* "BACKQUOTE" stands for the one-character text of the back quote, which *)
(* cannot be written in a string here.                                     *)

(* Token constructors.  sp: white space follows the token in the source.   *)
Id(s) == [text |-> s, kind |-> "Ident", sp |-> TRUE]
Num(s) == [text |-> s, kind |-> "Int", sp |-> TRUE]
Flt(s) == [text |-> s, kind |-> "Float", sp |-> TRUE]
Str(s) == [text |-> s, kind |-> "String", sp |-> TRUE]
Ch(s) == [text |-> s, kind |-> "Char", sp |-> TRUE]
Glue(t) == [t EXCEPT !.sp = FALSE]
EOFToken == [text |-> "", kind |-> "EOF", sp |-> FALSE]

-----------------------------------------------------------------------------
(* The scanner: text/scanner as parser.go uses it.  A scanner is a source  *)
(* and the index of its current token; an index past the end is EOF.       *)

Source(sc) == IF sc.file = "doc" THEN doc ELSE inc

newParser(file) == [file |-> file, pos |-> 0]

CurrentToken(sc) ==
    IF sc.pos >= 1 /\ sc.pos <= Len(Source(sc)) THEN Source(sc)[sc.pos] ELSE EOFToken

TokenText(sc) == CurrentToken(sc).text

(* Scan advances to the next token; at EOF it stays there.                 *)
Scan(sc) ==
    IF sc.pos > Len(Source(sc)) THEN sc ELSE [sc EXCEPT !.pos = sc.pos + 1]

(* The rune Scan returned for the current token.                           *)
Rune(sc) == CurrentToken(sc).kind

(* The first character of a token, as far as the parser compares it.       *)
FirstChar(t) ==
    CASE t.kind = "Char" -> t.text
      [] t.kind = "String" -> "\""
      [] t.kind = "Ident" -> "letter"
      [] OTHER -> "digit"

(* Peek: the character that follows the current token in the source.       *)
Peek(sc) ==
    LET src == Source(sc) IN
    IF sc.pos > Len(src) THEN "EOF"
    ELSE IF sc.pos = 0 THEN (IF Len(src) = 0 THEN "EOF" ELSE FirstChar(src[1]))
    ELSE IF src[sc.pos].sp THEN " "
    ELSE IF sc.pos = Len(src) THEN "EOF"
    ELSE FirstChar(src[sc.pos + 1])

-----------------------------------------------------------------------------
(* Values: the tagged union the parser builds.                             *)

NewConfigInt(n) == [t |-> "int", i |-> n]
NewConfigFloat32(s) == [t |-> "float", f |-> s]
NewConfigString(s) == [t |-> "string", s |-> s]
NewConfigBoolean(b) == [t |-> "boolean", b |-> b]
null == [t |-> "null"]
NewConfigObject(items) == [t |-> "object", items |-> items]
NewConfigArray(values) == [t |-> "array", vals |-> values]
NewSubstitution(path, optional) ==
    [t |-> "substitution", path |-> path, optional |-> optional]

EmptyItems == [k \in {} |-> null]
Nil == [t |-> "nil"]

Put(m, k, v) == [x \in (DOMAIN m) \cup {k} |-> IF x = k THEN v ELSE m[x]]

isBooleanString(token) ==
    token \in {"true", "yes", "on", "false", "no", "off"}

isSubstitution(token, peekedToken) == token = "$" /\ peekedToken = "{"

isSeparator(token, peekedToken) ==
    token = equalsToken \/ token = colonToken \/ (token = "+" /\ peekedToken = "=")

(* strconv.Atoi on the integer literals of the documents; any other text   *)
(* is not a number.                                                        *)
AtoiTable == [s \in {"1", "2", "3", "4", "5"} |->
                 CASE s = "1" -> 1 [] s = "2" -> 2 [] s = "3" -> 3
                   [] s = "4" -> 4 [] OTHER -> 5]

(* strings.ReplaceAll(token, `"`, ""), on the string literals in use.      *)
StripQuotes(token) ==
    CASE token = "\"s\"" -> "s"
      [] token = "\"f\"" -> "f"
      [] token = "\"g\"" -> "g"
      [] token = "\"\"" -> ""
      [] OTHER -> token

NewConfigBooleanFromString(token) ==
    NewConfigBoolean(token \in {"true", "yes", "on"})

-----------------------------------------------------------------------------
(* mergeConfigObjects (parser.go:219-229): for each key of the incoming    *)
(* object, merge in place when both values are objects, else replace.      *)

RECURSIVE mergeConfigObjects(_, _)
RECURSIVE MergeRange(_, _, _)

(* A merge that is not deep: every incoming value replaces the existing    *)
(* one.  The duplicate-key property tells it from mergeConfigObjects.      *)
mergeConfigObjectsShallow(existingItems, new) ==
    [k \in (DOMAIN existingItems) \cup (DOMAIN new.items) |->
        IF k \in DOMAIN new.items THEN new.items[k] ELSE existingItems[k]]

MergeRange(existingItems, newItems, keys) ==
    IF keys = {} THEN existingItems
    ELSE LET key == CHOOSE k \in keys : TRUE
             value == newItems[key]
             merged ==
                 IF /\ key \in DOMAIN existingItems
                    /\ existingItems[key].t = "object"
                    /\ value.t = "object"
                 THEN NewConfigObject(mergeConfigObjects(existingItems[key].items, value))
                 ELSE value
         IN MergeRange(Put(existingItems, key, merged), newItems, keys \ {key})

mergeConfigObjects(existingItems, new) ==
    MergeRange(existingItems, new.items, DOMAIN new.items)

-----------------------------------------------------------------------------
(* The machine: the scanners, the call stack, the returned value and the   *)
(* error, as one record the steps of the extractor transform.              *)

NewFrame(fn) ==
    [fn |-> fn, pc |-> "entry", root |-> EmptyItems, balanced |-> TRUE,
     key |-> "", text |-> "", vals |-> <<>>, rune |-> "",
     optional |-> FALSE, path |-> <<>>, prev |-> "", tok |-> ""]

Machine == [sc |-> scanners, st |-> stack, ret |-> ret, err |-> ""]

(* A call by value: the argument is evaluated once, then the body.         *)
Apply(F(_), x) == CHOOSE r \in {F(v) : v \in {x}} : TRUE

Front(s) == SubSeq(s, 1, Len(s) - 1)
Top(m) == m.st[Len(m.st)]
Cursor(m) == m.sc[Len(m.sc)]

SetTop(m, f) == [m EXCEPT !.st[Len(m.st)] = f]
Call(m, fn) == [m EXCEPT !.st = Append(m.st, NewFrame(fn)), !.ret = Nil]
Return(m, v) == [m EXCEPT !.st = Front(m.st), !.ret = v]
Fail(m, e) == [m EXCEPT !.st = <<>>, !.sc = <<>>, !.ret = Nil, !.err = e]
ScanM(m) == [m EXCEPT !.sc[Len(m.sc)] = Scan(Cursor(m))]
Text(m) == TokenText(Cursor(m))
PeekM(m) == Peek(Cursor(m))

-----------------------------------------------------------------------------
(* extractConfigValue (parser.go:353-394): a scalar is read on the spot, a *)
(* container or a substitution is a call of its extractor.                 *)

extractConfigValue(m, currentRune) ==
    LET token == Text(m) IN
    CASE currentRune = "Int" ->
           IF token \in DOMAIN AtoiTable
           THEN [kind |-> "value", v |-> NewConfigInt(AtoiTable[token]), m |-> ScanM(m)]
           ELSE [kind |-> "error", err |-> "atoi"]
      [] currentRune = "Float" ->
           [kind |-> "value", v |-> NewConfigFloat32(token), m |-> ScanM(m)]
      [] currentRune = "String" ->
           [kind |-> "value", v |-> NewConfigString(StripQuotes(token)), m |-> ScanM(m)]
      [] currentRune = "Ident" ->
           IF token = "null"
           THEN [kind |-> "value", v |-> null, m |-> ScanM(m)]
           ELSE IF isBooleanString(token)
           THEN [kind |-> "value", v |-> NewConfigBooleanFromString(token), m |-> ScanM(m)]
           ELSE [kind |-> "error", err |-> "unknownValue"]
      [] OTHER ->
           IF token = objectStartToken THEN [kind |-> "call", fn |-> "object"]
           ELSE IF token = arrayStartToken THEN [kind |-> "call", fn |-> "array"]
           ELSE IF isSubstitution(token, PeekM(m)) THEN [kind |-> "call", fn |-> "substitution"]
           ELSE [kind |-> "error", err |-> "unknownValue"]

-----------------------------------------------------------------------------
(* extractConfigObject (parser.go:125-217).                                *)

(* parser.go:213-216: the end of the function.                             *)
ObjectEnd(m) ==
    IF ~Top(m).balanced THEN Fail(m, "invalidConfigObject")
    ELSE Return(m, NewConfigObject(Top(m).root))

(* parser.go:202-210: skip a comma, close on the matching brace, or loop.  *)
ObjectTail(m) ==
    LET m1 == IF Text(m) = commaToken THEN ScanM(m) ELSE m IN
    IF ~Top(m1).balanced /\ Text(m1) = objectEndToken
    THEN Apply(ObjectEnd, SetTop(ScanM(m1), [Top(m1) EXCEPT !.balanced = TRUE]))
    ELSE SetTop(m1, [Top(m1) EXCEPT !.pc = "loop", !.key = "", !.text = ""])

(* parser.go:184-190: store the value of `key = value` or `key : value`.   *)
AssignValue(root, key, configValue) ==
    IF /\ configValue.t = "object"
       /\ key \in DOMAIN root
       /\ root[key].t = "object"
    THEN Put(root, key, NewConfigObject(mergeConfigObjects(root[key].items, configValue)))
    ELSE Put(root, key, configValue)

(* ConfigArray.Append: the value becomes the last element.                 *)
ArrayAppend(array, configValue) == NewConfigArray(Append(array.vals, configValue))

(* An append that forgets the array: the key is given a new one-element    *)
(* array each time.  The += property tells it from PlusEqualsStore.        *)
PlusEqualsStoreAnew(existingItems, key, configValue) ==
    Put(existingItems, key, NewConfigArray(<<configValue>>))

(* parser.go:231-251, after the value is extracted.                        *)
PlusEqualsStore(existingItems, key, configValue) ==
    IF key \notin DOMAIN existingItems
    THEN Put(existingItems, key, NewConfigArray(<<configValue>>))
    ELSE Put(existingItems, key, ArrayAppend(existingItems[key], configValue))

(* parser.go:231-243: += on a key that holds a value that is no array.     *)
PlusEqualsRefused(existingItems, key) ==
    key \in DOMAIN existingItems /\ existingItems[key].t # "array"

(* parser.go:176-200, then 202-210.                                        *)
ObjectSwitch(m) ==
    LET f == Top(m) IN
    IF f.text \in {equalsToken, colonToken} THEN
        LET m1 == ScanM(m)
            d == extractConfigValue(m1, Rune(Cursor(m1)))
        IN CASE d.kind = "error" -> Fail(m, d.err)
             [] d.kind = "call" -> Call(SetTop(m1, [f EXCEPT !.pc = "value"]), d.fn)
             [] OTHER ->
                  Apply(ObjectTail,
                        SetTop(d.m, [f EXCEPT !.root = AssignValue(f.root, f.key, d.v)]))
    ELSE IF f.text = "+" /\ PeekM(m) = "=" THEN
        LET m1 == ScanM(ScanM(m))
            d == extractConfigValue(m1, Rune(Cursor(m1)))
        IN IF PlusEqualsRefused(f.root, f.key) THEN Fail(m, "notAnArray")
           ELSE CASE d.kind = "error" -> Fail(m, d.err)
                  [] d.kind = "call" -> Call(SetTop(m1, [f EXCEPT !.pc = "plus"]), d.fn)
                  [] OTHER ->
                       Apply(ObjectTail, SetTop(d.m,
                           [f EXCEPT !.root = PlusEqualsStore(f.root, f.key, d.v)]))
    ELSE ObjectTail(m)

(* parser.go:149-174: the key, then the nested object of a dotted or       *)
(* braced assignment; anything else goes on to the switch.                 *)
ObjectKey(m) ==
    LET key == Text(m)
        m1 == ScanM(m)
        text == Text(m1)
        m2 == IF text = dotToken THEN ScanM(m1) ELSE m1
        f == [Top(m) EXCEPT !.key = key, !.text = text]
    IN
    IF key \in forbiddenCharacters THEN Fail(m, "invalidKey")
    ELSE IF key = dotToken THEN Fail(m, "leadingPeriod")
    ELSE IF text = dotToken /\ Text(m2) = dotToken THEN Fail(m, "adjacentPeriods")
    ELSE IF text = dotToken /\ isSeparator(Text(m2), PeekM(m2)) THEN Fail(m, "trailingPeriod")
    ELSE IF text = dotToken \/ text = objectStartToken
    THEN Call(SetTop(m2, [f EXCEPT !.pc = "nested"]), "object")
    ELSE Apply(ObjectSwitch, SetTop(m1, f))

(* A store that puts the fields of the nested object into the enclosing    *)
(* object and not under the key.  The dotted-key property tells it from    *)
(* StoreNested.                                                            *)
StoreNestedBesideKey(root, key, configObject) == mergeConfigObjects(root, configObject)

(* parser.go:173, when the nested call has returned.                       *)
StoreNested(root, key, configObject) == Put(root, key, configObject)

(* parser.go:126-137.                                                      *)
ObjectEntry(m) ==
    IF Text(m) = objectStartToken
    THEN LET m1 == ScanM(m) IN
         IF Text(m1) = objectEndToken
         THEN Return(ScanM(m1), NewConfigObject(EmptyItems))
         ELSE SetTop(m1, [Top(m1) EXCEPT !.pc = "loop", !.balanced = FALSE])
    ELSE SetTop(m, [Top(m) EXCEPT !.pc = "loop"])

-----------------------------------------------------------------------------
(* The include resolver (parser.go:253-318).                               *)

(* A token that starts and ends with a double quote (parser.go:286-287).   *)
IsQuoted(token) == token \in {"\"s\"", "\"f\"", "\"g\"", "\"\""}

(* os.Open: the one resource that exists is "f"; its content is inc.       *)
ResourceExists(path) == path = "f"

(* validateIncludeValue (parser.go:253-291), block by block.  The state    *)
(* between the blocks: the machine, required, token, and the error if any. *)

(* parser.go:254-264: required( is skipped.                                *)
IncludeRequired(m) ==
    LET m1 == ScanM(m)
        m2 == ScanM(m1)
    IN
    IF Text(m) # "required"
    THEN [m |-> m, required |-> FALSE, token |-> Text(m), err |-> ""]
    ELSE IF Text(m1) # "("
    THEN [m |-> m1, required |-> TRUE, token |-> Text(m), err |-> "invalidInclude"]
    ELSE [m |-> m2, required |-> TRUE, token |-> Text(m2), err |-> ""]

(* parser.go:265-277: file(path) or classpath(path); the scanner is left   *)
(* at the closing parenthesis.                                             *)
IncludeWrapped(v) ==
    LET m1 == ScanM(v.m)
        m2 == ScanM(m1)
        m3 == ScanM(m2)
    IN
    IF v.err # "" \/ v.token \notin {"file", "classpath"} THEN v
    ELSE IF Text(m1) # "(" THEN [v EXCEPT !.err = "invalidInclude"]
    ELSE IF Text(m3) # ")" THEN [v EXCEPT !.err = "invalidInclude"]
    ELSE [v EXCEPT !.m = m3, !.token = Text(m2)]

(* parser.go:279-284: the closing parenthesis of required(.                *)
IncludeClosed(v) ==
    LET m1 == ScanM(v.m) IN
    IF v.err # "" \/ ~v.required THEN v
    ELSE IF Text(m1) # ")" THEN [v EXCEPT !.err = "invalidInclude"]
    ELSE [v EXCEPT !.m = m1]

(* parser.go:286-290: the token must be a quoted string.                   *)
IncludeQuoted(v) ==
    IF v.err # "" \/ ~IsQuoted(v.token) THEN [err |-> "invalidInclude"]
    ELSE [err |-> "", path |-> StripQuotes(v.token), required |-> v.required, m |-> v.m]

validateIncludeValue(m) ==
    Apply(IncludeQuoted, Apply(IncludeClosed, Apply(IncludeWrapped, IncludeRequired(m))))

(* parser.go:145-146, then the rest of the loop body (149-210): the merge  *)
(* of the included object, one Scan, and the key that follows.             *)
AfterInclude(m, includedConfigObject) ==
    LET f == Top(m)
        merged == [f EXCEPT !.root = mergeConfigObjects(f.root, includedConfigObject)]
    IN Apply(ObjectKey, ScanM(SetTop(m, merged)))

(* parser.go:139-144 with parseIncludedResource (293-318) up to the call   *)
(* of the included resource's extractConfigObject.                         *)
ObjectIncludeStep(m) ==
    Apply(LAMBDA v :
            IF v.err # "" THEN Fail(m, v.err)
            ELSE IF ~ResourceExists(v.path)
            THEN IF v.required THEN Fail(m, "resource")
                 ELSE AfterInclude(v.m, NewConfigObject(EmptyItems))
            ELSE LET opened == [v.m EXCEPT !.sc = Append(v.m.sc, Scan(newParser("inc")))] IN
                 IF Text(opened) = arrayStartToken THEN Fail(m, "invalidInclude")
                 ELSE Call(SetTop(opened, [Top(opened) EXCEPT !.pc = "included"]), "object"),
          validateIncludeValue(ScanM(m)))

(* parseIncludedResource returns: the file is closed, its parser dropped.  *)
CloseIncluded(m) == [m EXCEPT !.sc = Front(m.sc)]

-----------------------------------------------------------------------------
(* extractConfigArray (parser.go:320-351).                                 *)

(* parser.go:337-346.                                                      *)
ArrayTail(m) ==
    LET comma == Text(m) = commaToken
        m1 == IF comma THEN ScanM(m) ELSE m
        f == IF comma THEN [Top(m1) EXCEPT !.rune = Rune(Cursor(m1))] ELSE Top(m1)
    IN
    IF ~f.balanced /\ Text(m1) = arrayEndToken
    THEN Return(ScanM(m1), NewConfigArray(f.vals))
    ELSE SetTop(m1, [f EXCEPT !.pc = "loop"])

(* parser.go:321-330.                                                      *)
ArrayEntry(m) ==
    IF Text(m) # arrayStartToken THEN Fail(m, "invalidConfigArray")
    ELSE LET m1 == ScanM(m) IN
         IF Text(m1) = arrayEndToken
         THEN Return(ScanM(m1), NewConfigArray(<<>>))
         ELSE SetTop(m1, [Top(m1) EXCEPT !.pc = "loop", !.balanced = FALSE,
                                         !.rune = Rune(Cursor(m1))])

(* parser.go:331-336 and 347-349.                                          *)
ArrayLoopStep(m) ==
    LET f == Top(m)
        d == extractConfigValue(m, f.rune)
    IN
    IF PeekM(m) = "EOF" THEN Fail(m, "invalidConfigArray")
    ELSE CASE d.kind = "error" -> Fail(m, d.err)
           [] d.kind = "call" -> Call(SetTop(m, [f EXCEPT !.pc = "value"]), d.fn)
           [] OTHER -> Apply(ArrayTail,
                             SetTop(d.m, [f EXCEPT !.vals = Append(f.vals, d.v)]))

-----------------------------------------------------------------------------
(* extractSubstitution (parser.go:396-445).                                *)

(* pathBuilder.WriteString: the path is the texts written, in order; the   *)
(* empty text of EOF adds nothing.                                         *)
WriteString(path, text) == IF text = "" THEN path ELSE Append(path, text)

(* parser.go:397-414: up to the loop; tok is read once, before the loop.   *)
SubstitutionEntry(m) ==
    LET m1 == ScanM(ScanM(m))
        optional == Text(m1) = "?"
        m2 == IF optional THEN ScanM(m1) ELSE m1
        firstToken == Text(m2)
    IN
    IF firstToken = objectEndToken THEN Fail(m, "invalidSubstitution")
    ELSE IF firstToken = dotToken THEN Fail(m, "leadingPeriod")
    ELSE SetTop(m2, [Top(m2) EXCEPT !.pc = "loop", !.optional = optional,
                                    !.balanced = FALSE, !.tok = PeekM(m2)])

(* parser.go:415 and 441-443: the loop tests tok, which its post statement *)
(* p.scanner.Peek() never assigns; when the test fails the brace is        *)
(* missing.                                                                *)
SubstitutionLoopTest(m) ==
    IF Top(m).tok = "EOF" THEN Fail(m, "invalidSubstitution")
    ELSE SetTop(m, [Top(m) EXCEPT !.pc = "body"])

(* parser.go:416-439: the body of the loop.                                *)
SubstitutionBodyStep(m) ==
    LET f == Top(m)
        path == WriteString(f.path, Text(m))
        m1 == ScanM(m)
        text == Text(m1)
    IN
    IF f.prev = dotToken /\ text = dotToken THEN Fail(m, "adjacentPeriods")
    ELSE IF text = objectEndToken
    THEN IF f.prev = dotToken THEN Fail(m, "trailingPeriod")
         ELSE Return(ScanM(m1), NewSubstitution(path, f.optional))
    ELSE IF text \in forbiddenCharacters THEN Fail(m, "invalidKey")
    ELSE SetTop(m1, [f EXCEPT !.path = path, !.prev = text, !.pc = "loop"])

-----------------------------------------------------------------------------
(* The tree in memory.  Values are pointers in the program: a container    *)
(* holds the addresses of its children, and a resolved substitution makes  *)
(* its field hold the address of the value found.  The address of a node   *)
(* is the path at which the extractor built it.                            *)

IndexKey(i) == <<"0", "1", "2", "3", "4", "5", "6", "7">>[i]

RECURSIVE Addresses(_, _)
Addresses(v, addr) ==
    {addr} \cup
    CASE v.t = "object" ->
           UNION {Addresses(v.items[k], Append(addr, k)) : k \in DOMAIN v.items}
      [] v.t = "array" ->
           UNION {Addresses(v.vals[i], Append(addr, IndexKey(i))) : i \in DOMAIN v.vals}
      [] OTHER -> {}

RECURSIVE ValueAt(_, _, _)
ValueAt(v, addr, n) ==
    IF n > Len(addr) THEN v
    ELSE IF v.t = "object" THEN ValueAt(v.items[addr[n]], addr, n + 1)
    ELSE ValueAt(v.vals[CHOOSE i \in DOMAIN v.vals : IndexKey(i) = addr[n]], addr, n + 1)

NodeOf(v, addr) ==
    CASE v.t = "object" -> [t |-> "object", items |-> [k \in DOMAIN v.items |-> Append(addr, k)]]
      [] v.t = "array" -> [t |-> "array", vals |-> [i \in DOMAIN v.vals |-> Append(addr, IndexKey(i))]]
      [] OTHER -> v

InMemory(v) == [addr \in Addresses(v, <<>>) |-> NodeOf(ValueAt(v, addr, 1), addr)]

RootAddress == <<>>
NoHeap == [addr \in {} |-> null]

-----------------------------------------------------------------------------
(* ConfigObject.find: the path is split at its periods and walked through  *)
(* nested objects from the root; the result is the address found, if any.  *)

RECURSIVE SplitPath(_, _, _)
SplitPath(path, n, segment) ==
    IF n > Len(path) THEN <<segment>>
    ELSE IF path[n] = dotToken THEN <<segment>> \o SplitPath(path, n + 1, "")
    ELSE SplitPath(path, n + 1, segment \o path[n])

RECURSIVE FindFrom(_, _, _)
FindFrom(h, addr, keys) ==
    IF h[addr].t # "object" THEN {}
    ELSE IF keys[1] \notin DOMAIN h[addr].items THEN {}
    ELSE IF Len(keys) = 1 THEN {h[addr].items[keys[1]]}
    ELSE FindFrom(h, h[addr].items[keys[1]], Tail(keys))

find(h, path) == FindFrom(h, RootAddress, SplitPath(path, 1, ""))

-----------------------------------------------------------------------------
(* resolveSubstitutions and processSubstitution (parser.go:82-123).        *)

(* A call of resolveSubstitutions on the container at addr: the fields     *)
(* (or the indexes) its range loop has not visited yet.                    *)
ResolveFrame(h, addr) ==
    [addr |-> addr,
     todo |-> IF h[addr].t = "object" THEN DOMAIN h[addr].items
              ELSE {IndexKey(i) : i \in DOMAIN h[addr].vals}]

Child(h, addr, k) ==
    IF h[addr].t = "object" THEN h[addr].items[k]
    ELSE h[addr].vals[CHOOSE i \in DOMAIN h[addr].vals : IndexKey(i) = k]

(* resolveFunc: v.items[key] = foundValue, or v.values[i] = foundValue.    *)
SetChild(h, addr, k, found) ==
    IF h[addr].t = "object" THEN [h EXCEPT ![addr].items[k] = found]
    ELSE [h EXCEPT ![addr].vals[CHOOSE i \in DOMAIN h[addr].vals : IndexKey(i) = k] = found]

(* processSubstitution (parser.go:111-123) on the child k of the container *)
(* of the top frame: a resolver state [h, rs, err] to the next one.        *)
processSubstitution(r, k) ==
    LET addr == r.rs[Len(r.rs)].addr
        rest == [r EXCEPT !.rs[Len(r.rs)].todo = @ \ {k}]
        value == r.h[Child(r.h, addr, k)]
        found == find(r.h, value.path)
    IN
    IF value.t = "substitution"
    THEN IF found # {}
         THEN [rest EXCEPT !.h = SetChild(r.h, addr, k, CHOOSE a \in found : TRUE)]
         ELSE IF ~value.optional THEN [rest EXCEPT !.err = "unresolved", !.rs = <<>>]
         ELSE rest
    ELSE IF value.t = "object" \/ value.t = "array"
    THEN [rest EXCEPT !.rs = Append(rest.rs, ResolveFrame(r.h, Child(r.h, addr, k)))]
    ELSE rest

(* The next index of a slice's range loop: the first one not yet visited.  *)
NextIndex(todo) ==
    CHOOSE k \in todo : \A j \in 1..8 : IndexKey(j) \in todo /\ IndexKey(j) # k =>
        (CHOOSE i \in 1..8 : IndexKey(i) = k) < j

Resolver == [h |-> heap, rs |-> rstack, err |-> ""]

-----------------------------------------------------------------------------
(* Documents.  The bounds of the document families.                        *)

MaxDepth == 3       \* the longest dotted or braced key sequence
MaxAppend == 3      \* the most += statements on one key
MaxChain == 3       \* the longest chain of substitutions

(* Layouts: white space after every token, the same without white space    *)
(* at the end of the input, and no white space but where two tokens would  *)
(* otherwise read as one.  A glued token keeps no white space after it.    *)
Wordy(t) == t.kind \in {"Ident", "Int", "Float"}

Spaced(toks) == toks

NoTrail(toks) ==
    [i \in DOMAIN toks |-> IF i = Len(toks) THEN Glue(toks[i]) ELSE toks[i]]

Tight(toks) ==
    [i \in DOMAIN toks |->
        [toks[i] EXCEPT !.sp = i < Len(toks) /\ Wordy(toks[i]) /\ Wordy(toks[i + 1])]]

LayoutNames == {"spaced", "notrail", "tight"}

Layout(toks, l) ==
    CASE l = "spaced" -> Spaced(toks)
      [] l = "notrail" -> NoTrail(toks)
      [] OTHER -> Tight(toks)

(* The text of a value.                                                    *)
Itoa(i) == <<"1", "2", "3", "4", "5">>[i]

RECURSIVE Render(_)
RECURSIVE RenderFields(_, _)
RECURSIVE RenderElems(_, _)

RenderFields(items, keys) ==
    IF keys = {} THEN <<>>
    ELSE LET k == CHOOSE x \in keys : TRUE IN
         <<Id(k), Ch(colonToken)>> \o Render(items[k])
         \o (IF keys = {k} THEN <<>> ELSE <<Ch(commaToken)>>)
         \o RenderFields(items, keys \ {k})

RenderElems(vals, n) ==
    IF n > Len(vals) THEN <<>>
    ELSE Render(vals[n])
         \o (IF n = Len(vals) THEN <<>> ELSE <<Ch(commaToken)>>)
         \o RenderElems(vals, n + 1)

RenderPath(path) == [i \in DOMAIN path |-> IF path[i] = dotToken THEN Ch(dotToken) ELSE Id(path[i])]

Render(v) ==
    CASE v.t = "int" -> <<Num(Itoa(v.i))>>
      [] v.t = "string" -> <<Str("\"s\"")>>
      [] v.t = "boolean" -> <<Id(IF v.b THEN "true" ELSE "off")>>
      [] v.t = "null" -> <<Id("null")>>
      [] v.t = "object" ->
           <<Ch(objectStartToken)>> \o RenderFields(v.items, DOMAIN v.items)
           \o <<Ch(objectEndToken)>>
      [] v.t = "array" ->
           <<Ch(arrayStartToken)>> \o RenderElems(v.vals, 1) \o <<Ch(arrayEndToken)>>
      [] OTHER ->
           <<Glue(Ch("$")), Ch(objectStartToken)>>
           \o (IF v.optional THEN <<Ch("?")>> ELSE <<>>)
           \o RenderPath(v.path) \o <<Ch(objectEndToken)>>

(* Statements.                                                             *)
Assign(k, sep, v) == <<Id(k), Ch(sep)>> \o Render(v)
PlusEquals(k, v) == <<Id(k), Glue(Ch("+")), Ch(equalsToken)>> \o Render(v)

RECURSIVE DottedKey(_, _)
DottedKey(ks, n) ==
    IF n = Len(ks) THEN <<Id(ks[n])>>
    ELSE <<Glue(Id(ks[n])), Glue(Ch(dotToken))>> \o DottedKey(ks, n + 1)

(* k1.k2. ... .kn = v                                                      *)
Dotted(ks, v) == DottedKey(ks, 1) \o <<Ch(equalsToken)>> \o Render(v)

(* k1 { k2 { ... { kn = v } ... } }                                        *)
RECURSIVE BracedFrom(_, _, _)
BracedFrom(ks, n, v) ==
    IF n = Len(ks) THEN <<Id(ks[n]), Ch(equalsToken)>> \o Render(v)
    ELSE <<Id(ks[n]), Ch(objectStartToken)>> \o BracedFrom(ks, n + 1, v)
         \o <<Ch(objectEndToken)>>
Braced(ks, v) == BracedFrom(ks, 1, v)

(* Two statements, with or without a comma between them.                   *)
Then(s1, comma, s2) == s1 \o (IF comma THEN <<Ch(commaToken)>> ELSE <<>>) \o s2

(* A document: the statements, in braces or not, in a layout.              *)
Document(stmts, braces, l) ==
    Layout(IF braces THEN <<Ch(objectStartToken)>> \o stmts \o <<Ch(objectEndToken)>>
           ELSE stmts, l)

(* Values by shorthand.                                                    *)
Obj1(k, v) == NewConfigObject([x \in {k} |-> v])
Obj2(k1, v1, k2, v2) == NewConfigObject([x \in {k1, k2} |-> IF x = k1 THEN v1 ELSE v2])
Ref(path) == NewSubstitution(path, FALSE)
OptRef(path) == NewSubstitution(path, TRUE)

(* The object chain k1 -> k2 -> ... -> kn -> v.                            *)
RECURSIVE ChainFrom(_, _, _)
ChainFrom(ks, n, v) ==
    IF n > Len(ks) THEN v ELSE Obj1(ks[n], ChainFrom(ks, n + 1, v))
Chain(ks, v) == ChainFrom(ks, 1, v)

Keys == {"a", "b"}
KeySeqs(n) == UNION {[1..d -> Keys] : d \in 1..n}
ScalarValues ==
    {NewConfigInt(1), NewConfigString("s"), NewConfigBoolean(TRUE), null}

-----------------------------------------------------------------------------
(* The document families.  A case is a document with the values it was     *)
(* written from.                                                           *)

One == NewConfigInt(1)
Two == NewConfigInt(2)

(* A dotted or a braced key sequence with a scalar value, alone.           *)
DottedCases ==
    {[toks |-> Document(IF form = "dotted" THEN Dotted(ks, v) ELSE Braced(ks, v), FALSE, l),
      form |-> form, ks |-> ks, v |-> v] :
        form \in {"dotted", "braced"}, ks \in KeySeqs(MaxDepth),
        v \in ScalarValues, l \in LayoutNames}

(* A dotted assignment followed, in the same object, by a sibling key or   *)
(* by the closing brace.                                                   *)
SiblingCases ==
    {[toks |-> Document(IF c.sibling
                        THEN Then(Dotted(ks, One), c.comma, Assign("c", equalsToken, Two))
                        ELSE Dotted(ks, One), c.braces, l),
      ks |-> ks, sibling |-> c.sibling] :
        ks \in {k \in KeySeqs(MaxDepth) : Len(k) >= 2}, l \in LayoutNames,
        c \in {x \in [sibling : BOOLEAN, comma : BOOLEAN, braces : BOOLEAN] :
                 x.sibling \/ (x.braces /\ ~x.comma)}}

(* One key assigned twice with = or :.                                     *)
MergeValues ==
    {One, Two, NewConfigArray(<<One>>), Obj1("x", One), Obj1("y", Two),
     Obj1("x", Obj1("p", One)), Obj2("x", Obj1("q", Two), "y", Two)}

DuplicateCases ==
    {[toks |-> Document(Then(Assign("a", sep, v1), comma, Assign("a", sep, v2)), braces, l),
      v1 |-> v1, v2 |-> v2] :
        v1 \in MergeValues, v2 \in MergeValues, sep \in {equalsToken, colonToken},
        comma \in BOOLEAN, braces \in BOOLEAN, l \in LayoutNames}

(* A key, absent or assigned, then += statements on it.                    *)
AppendValues == {One, Two, Obj1("x", One)}
AppendStarts ==
    {Nil, NewConfigArray(<<>>), NewConfigArray(<<One>>), One, Obj1("x", One),
     NewConfigString("s")}
AppendSeqs == UNION {[1..n -> AppendValues] : n \in 1..MaxAppend}

RECURSIVE PlusEqualsFrom(_, _, _)
PlusEqualsFrom(vs, n, comma) ==
    IF n > Len(vs) THEN <<>>
    ELSE (IF comma THEN <<Ch(commaToken)>> ELSE <<>>)
         \o PlusEquals("a", vs[n]) \o PlusEqualsFrom(vs, n + 1, comma)

AppendStatements(start, vs, comma) ==
    IF start = Nil
    THEN PlusEquals("a", vs[1]) \o PlusEqualsFrom(vs, 2, comma)
    ELSE Assign("a", equalsToken, start) \o PlusEqualsFrom(vs, 1, comma)

AppendCases ==
    {[toks |-> Document(AppendStatements(start, vs, comma), braces, l),
      start |-> start, vs |-> vs] :
        start \in AppendStarts, vs \in AppendSeqs,
        comma \in BOOLEAN, braces \in BOOLEAN, l \in LayoutNames}

(* A key that holds an object, declared again in the dotted or the braced  *)
(* form.                                                                   *)
RedeclareCases ==
    {[toks |-> Document(Then(first, comma, second), braces, l)] :
        first \in {Braced(<<"a", "x">>, One), Assign("a", equalsToken, Obj1("x", One))},
        second \in {Braced(<<"a", "y">>, Two), Dotted(<<"a", "y">>, Two)},
        comma \in BOOLEAN, braces \in BOOLEAN, l \in LayoutNames}

(* Include directives.  "f" is the resource that exists, "g" is missing.   *)
Open == Glue(Ch("("))
Close == Ch(")")
Include(form, path) ==
    <<Id(includeToken)>> \o
    CASE form = "plain" -> <<Str(path)>>
      [] form = "file" -> <<Glue(Id("file")), Open, Glue(Str(path)), Close>>
      [] form = "classpath" -> <<Glue(Id("classpath")), Open, Glue(Str(path)), Close>>
      [] form = "required" -> <<Glue(Id("required")), Open, Glue(Str(path)), Close>>
      [] OTHER -> <<Glue(Id("required")), Open, Glue(Id("file")), Open,
                    Glue(Str(path)), Glue(Close), Close>>

IncludeForms == {"plain", "file", "classpath", "required", "requiredFile"}

(* The resources: the tokens of "f" and the root object they hold.         *)
IncludedCases ==
    {[toks |-> Spaced(Assign("x", equalsToken, One)), root |-> Obj1("x", One)],
     [toks |-> Tight(<<Ch(objectStartToken)>> \o Assign("a", colonToken, Obj1("y", Two))
                     \o <<Ch(objectEndToken)>>),
      root |-> Obj1("a", Obj1("y", Two))],
     [toks |-> Spaced(Render(NewConfigArray(<<One>>))), root |-> Nil]}

IncludedDocs == {c.toks : c \in IncludedCases}

(* before, the directives, after: each part may be empty.                  *)
IncludeCases ==
    {[toks |-> Document(c.before \o c.first \o c.second \o c.after, braces, l),
      before |-> c.before # <<>>, first |-> c.first # <<>>, second |-> c.second # <<>>,
      after |-> c.after # <<>>] :
        braces \in BOOLEAN, l \in LayoutNames,
        c \in [before : {<<>>, Assign("a", equalsToken, Obj1("x", One))},
               first : {<<>>, Include("plain", "\"g\""), Include("required", "\"f\"")},
               second : {Include(form, "\"f\"") : form \in IncludeForms},
               after : {<<>>, Assign("b", equalsToken, Two)}]}

IncludeOtherDocs ==
    {Layout(d, l) : l \in LayoutNames,
        d \in {Include("required", "\"g\""), Include("plain", "\"\""),
               <<Id(includeToken), Id("f")>>,
               <<Id(includeToken), Id("required"), Str("\"f\"")>>,
               <<Id(includeToken), Glue(Id("file")), Open, Glue(Str("\"f\""))>>,
               <<Id(includeToken), Glue(Id("file")), Str("\"f\"")>>,
               <<Id(includeToken), Glue(Id("required")), Open, Glue(Str("\"f\""))>>,
               Include("plain", "\"f\"") \o <<Ch(commaToken)>> \o Assign("b", equalsToken, Two)}}

(* Substitutions.                                                          *)
ChainKeys == <<"a", "b", "c", "d", "e">>

RECURSIVE ChainStatements(_, _, _)
ChainStatements(i, n, forward) ==
    LET stmt == IF i = n THEN Assign(ChainKeys[i], equalsToken, One)
                ELSE Assign(ChainKeys[i], equalsToken, Ref(<<ChainKeys[i + 1]>>))
    IN IF i > n THEN <<>>
       ELSE IF forward THEN stmt \o ChainStatements(i + 1, n, forward)
       ELSE ChainStatements(i + 1, n, forward) \o stmt

ChainDocs ==
    {Spaced(ChainStatements(1, n, forward)) : n \in 1..MaxChain, forward \in BOOLEAN}

SubstitutionStatements ==
    {Assign("a", equalsToken, Ref(<<"a">>)),
     Assign("a", equalsToken, Ref(<<"b">>)),
     Assign("b", equalsToken, Ref(<<"a">>)),
     Assign("a", equalsToken, OptRef(<<"b">>)),
     Assign("b", equalsToken, OptRef(<<"m">>)),
     Assign("a", equalsToken, Ref(<<"m">>)),
     Assign("a", equalsToken, Ref(<<"b", ".", "x">>)),
     Assign("b", equalsToken, Obj1("x", Ref(<<"a">>))),
     Assign("b", equalsToken, Obj1("x", One)),
     Assign("b", equalsToken, One),
     Assign("a", equalsToken, NewConfigArray(<<Ref(<<"b">>), OptRef(<<"m">>)>>)),
     Assign("b", equalsToken, NewConfigArray(<<Obj1("x", Ref(<<"a">>))>>))}

SubstitutionDocs ==
    {Layout(s, l) : s \in SubstitutionStatements, l \in LayoutNames}
    \cup {Layout(Then(s1, comma, s2), l) :
            s1 \in SubstitutionStatements, s2 \in SubstitutionStatements,
            comma \in BOOLEAN, l \in {"spaced", "tight"}}

Dollar == Glue(Ch("$"))
AssignTo(k) == <<Id(k), Ch(equalsToken)>>

MalformedSubstitutionDocs ==
    {Layout(AssignTo("a") \o d, l) : l \in LayoutNames,
        d \in {<<Dollar, Ch("{"), Id("b")>>,
               <<Dollar, Ch("{"), Ch("?"), Id("b")>>,
               <<Dollar, Ch("{"), Id("b"), Ch("."), Id("c")>>,
               <<Dollar, Ch("{"), Id("b"), Id("c"), Ch("}")>>,
               <<Dollar, Ch("{"), Ch("}")>>,
               <<Dollar, Ch("{"), Ch("."), Id("b"), Ch("}")>>,
               <<Dollar, Ch("{"), Id("b"), Ch("."), Ch("."), Id("c"), Ch("}")>>,
               <<Dollar, Ch("{"), Id("b"), Ch("."), Ch("}")>>,
               <<Dollar, Ch("{")>>,
               <<Ch("$"), Ch("{"), Id("b"), Ch("}")>>,
               <<Dollar, Ch("{"), Id("b"), Ch("}"), Ch(","), Id("b"), Ch("="), Num("1")>>}}

(* Forbidden characters where a key or a path segment is read.  The lexer  *)
(* gives no token that is a lone double quote or back quote.               *)
ForbiddenTokens == forbiddenCharacters \ {"\"", "BACKQUOTE"}

ForbiddenKeyCases ==
    {[toks |-> Document(d, braces, l)] : braces \in BOOLEAN, l \in LayoutNames,
        d \in UNION {
            { <<Ch(f), Ch(equalsToken), Num("1")>>,
              <<Id("b"), Ch(equalsToken), Num("1"), Ch(f), Ch(equalsToken), Num("2")>>,
              <<Id("b"), Ch(equalsToken), Num("1"), Ch(commaToken),
                Ch(f), Ch(equalsToken), Num("2")>>,
              <<Glue(Id("a")), Glue(Ch(dotToken)), Ch(f), Ch(equalsToken), Num("1")>>,
              <<Id("a"), Ch(objectStartToken), Ch(f), Ch(equalsToken), Num("1"),
                Ch(objectEndToken)>> } :
            f \in ForbiddenTokens \ {objectStartToken, objectEndToken, arrayStartToken,
                                     commaToken} }
          \cup {<<Glue(Id("a")), Glue(Ch(dotToken)), Ch(f), Id("b"), Ch(equalsToken), Num("1"),
                  Ch(objectEndToken)>> :
                  f \in {objectStartToken, arrayStartToken, commaToken} }}

(* ${?} alone is the optional marker before an empty path.                 *)
ForbiddenPathShapes ==
    {x \in [f : ForbiddenTokens \ {objectEndToken}, opt : {<<>>, <<Ch("?")>>},
            pre : {<<>>, <<Id("a"), Ch(dotToken)>>}] :
        ~(x.f = "?" /\ x.opt = <<>> /\ x.pre = <<>>)}

ForbiddenPathCases ==
    {[toks |-> Layout(AssignTo("a") \o <<Dollar, Ch("{")>> \o c.opt \o c.pre
                      \o <<Ch(c.f), Ch("}")>>, l)] :
        c \in ForbiddenPathShapes, l \in LayoutNames}

(* Arrays at the root, and documents that are not well formed.             *)
ArrayDocs ==
    {Layout(d, l) : l \in LayoutNames,
        d \in {Render(NewConfigArray(<<>>)),
               Render(NewConfigArray(<<One, Two>>)),
               Render(NewConfigArray(<<NewConfigArray(<<One>>), Obj1("a", One)>>)),
               Render(NewConfigArray(<<Ref(<<"a">>)>>)),
               <<Ch("["), Num("1"), Num("2"), Ch("]")>>,
               <<Ch("["), Num("1"), Str("\"s\""), Ch("]")>>,
               <<Ch("["), Num("1"), Ch(","), Ch("]")>>,
               <<Ch("["), Flt("1.5"), Ch("]")>>,
               <<Ch("[")>>,
               <<Ch("["), Num("1")>>,
               <<Ch("["), Num("1"), Ch(",")>>,
               <<Ch("["), Id("foo"), Ch("]")>>}}

OtherDocs ==
    {Layout(d, l) : l \in LayoutNames,
        d \in {<<>>, <<Id("a")>>,
               <<Id("a"), Ch("="), Id("foo")>>,
               <<Ch("."), Id("a"), Ch("="), Num("1")>>,
               <<Id("a"), Ch("."), Ch("."), Id("b"), Ch("="), Num("1")>>,
               <<Id("a"), Ch("."), Ch("="), Num("1")>>,
               <<Id("a"), Ch("."), Glue(Ch("+")), Ch("="), Num("1")>>,
               <<Ch("{"), Id("a"), Ch("="), Num("1")>>,
               <<Id("a"), Ch("="), Num("1"), Ch("}")>>,
               <<Id("a"), Ch("+"), Num("1")>>,
               <<Id("a"), Ch("="), Ch("{"), Ch("}")>>,
               <<Ch("{"), Ch("}")>>,
               <<Id("a"), Ch("="), Id("null"), Id("b"), Ch(":"), Id("off")>>}}

Docs ==
    {c.toks : c \in DottedCases} \cup {c.toks : c \in SiblingCases}
    \cup {c.toks : c \in DuplicateCases} \cup {c.toks : c \in AppendCases}
    \cup {c.toks : c \in RedeclareCases} \cup {c.toks : c \in IncludeCases}
    \cup IncludeOtherDocs \cup ChainDocs \cup SubstitutionDocs
    \cup MalformedSubstitutionDocs
    \cup {c.toks : c \in ForbiddenKeyCases} \cup {c.toks : c \in ForbiddenPathCases}
    \cup ArrayDocs \cup OtherDocs

-----------------------------------------------------------------------------
(* The state machine.                                                      *)

HasInclude(toks) == \E i \in DOMAIN toks : toks[i].text = includeToken

Init ==
    /\ doc \in Docs
    /\ inc \in IF HasInclude(doc) THEN IncludedDocs
               ELSE {CHOOSE d \in IncludedDocs : TRUE}
    /\ scanners = <<newParser("doc")>>
    /\ stack = <<NewFrame("parse")>>
    /\ ret = Nil
    /\ phase = "parse"
    /\ heap = NoHeap
    /\ rstack = <<>>
    /\ result = Nil

Failure(e) == [ok |-> FALSE, err |-> e]
Success == [ok |-> TRUE, err |-> ""]

(* A step of the extractor: the machine it leaves, or the error parse()    *)
(* returns.                                                                *)
Continue(next) ==
    \E m \in {next} :
        IF m.err # ""
        THEN /\ phase' = "done"
             /\ result' = Failure(m.err)
             /\ scanners' = <<>>
             /\ stack' = <<>>
             /\ ret' = Nil
             /\ UNCHANGED <<doc, inc, heap, rstack>>
        ELSE /\ scanners' = m.sc
             /\ stack' = m.st
             /\ ret' = m.ret
             /\ UNCHANGED <<doc, inc, phase, heap, rstack, result>>

At(fn, pc) ==
    /\ phase = "parse"
    /\ stack # <<>>
    /\ Top(Machine).fn = fn
    /\ Top(Machine).pc = pc

(* parse (parser.go:58-80).                                                *)
ParseStart ==
    /\ At("parse", "entry")
    /\ LET m == ScanM(Machine) IN
       IF Text(m) = arrayStartToken
       THEN Continue(Call(SetTop(m, [Top(m) EXCEPT !.pc = "array"]), "array"))
       ELSE Continue(Call(SetTop(m, [Top(m) EXCEPT !.pc = "object"]), "object"))

ParseArrayDone ==
    /\ At("parse", "array")
    /\ phase' = "done"
    /\ result' = Success
    /\ heap' = InMemory(ret)
    /\ scanners' = <<>>
    /\ stack' = <<>>
    /\ ret' = Nil
    /\ UNCHANGED <<doc, inc, rstack>>

ParseObjectDone ==
    /\ At("parse", "object")
    /\ IF Text(Machine) # ""
       THEN Continue(Fail(Machine, "invalidConfigObject"))
       ELSE /\ phase' = "resolve"
            /\ heap' = InMemory(ret)
            /\ rstack' = <<ResolveFrame(InMemory(ret), RootAddress)>>
            /\ scanners' = <<>>
            /\ stack' = <<>>
            /\ ret' = Nil
            /\ UNCHANGED <<doc, inc, result>>

(* extractConfigObject.                                                    *)
ObjectStart == At("object", "entry") /\ Continue(ObjectEntry(Machine))

ObjectLoopExit ==
    /\ At("object", "loop")
    /\ PeekM(Machine) = "EOF"
    /\ Continue(ObjectEnd(Machine))

ObjectStatement ==
    /\ At("object", "loop")
    /\ PeekM(Machine) # "EOF"
    /\ Text(Machine) # includeToken
    /\ Continue(ObjectKey(Machine))

ObjectInclude ==
    /\ At("object", "loop")
    /\ PeekM(Machine) # "EOF"
    /\ Text(Machine) = includeToken
    /\ Continue(ObjectIncludeStep(Machine))

ObjectIncluded ==
    /\ At("object", "included")
    /\ \E m \in {CloseIncluded(Machine)} : Continue(AfterInclude(m, ret))

ObjectNested ==
    /\ At("object", "nested")
    /\ LET f == Top(Machine) IN
       Continue(Apply(ObjectSwitch, SetTop(Machine,
           [f EXCEPT !.root = StoreNested(f.root, f.key, ret)])))

ObjectValue ==
    /\ At("object", "value")
    /\ LET f == Top(Machine) IN
       Continue(Apply(ObjectTail, SetTop(Machine,
           [f EXCEPT !.root = AssignValue(f.root, f.key, ret)])))

ObjectPlusValue ==
    /\ At("object", "plus")
    /\ LET f == Top(Machine) IN
       Continue(Apply(ObjectTail, SetTop(Machine,
           [f EXCEPT !.root = PlusEqualsStore(f.root, f.key, ret)])))

(* extractConfigArray.                                                     *)
ArrayStart == At("array", "entry") /\ Continue(ArrayEntry(Machine))

ArrayLoop == At("array", "loop") /\ Continue(ArrayLoopStep(Machine))

ArrayValue ==
    /\ At("array", "value")
    /\ LET f == Top(Machine) IN
       Continue(Apply(ArrayTail, SetTop(Machine, [f EXCEPT !.vals = Append(f.vals, ret)])))

(* extractSubstitution.                                                    *)
SubstitutionStart == At("substitution", "entry") /\ Continue(SubstitutionEntry(Machine))

SubstitutionLoop == At("substitution", "loop") /\ Continue(SubstitutionLoopTest(Machine))

SubstitutionBody == At("substitution", "body") /\ Continue(SubstitutionBodyStep(Machine))

(* resolveSubstitutions.                                                   *)
Resolved(next) ==
    \E r \in {next} :
        IF r.err # ""
        THEN /\ phase' = "done"
             /\ result' = Failure(r.err)
             /\ heap' = NoHeap
             /\ rstack' = <<>>
             /\ UNCHANGED <<doc, inc, scanners, stack, ret>>
        ELSE /\ heap' = r.h
             /\ rstack' = r.rs
             /\ UNCHANGED <<doc, inc, scanners, stack, ret, phase, result>>

Resolving(t) ==
    /\ phase = "resolve"
    /\ rstack # <<>>
    /\ heap[rstack[Len(rstack)].addr].t = t

(* The range over a map visits its keys in an order the program does not   *)
(* choose.                                                                 *)
ResolveField ==
    /\ Resolving("object")
    /\ \E key \in rstack[Len(rstack)].todo : Resolved(processSubstitution(Resolver, key))

(* The range over a slice visits its indexes in order.                     *)
ResolveElement ==
    /\ Resolving("array")
    /\ rstack[Len(rstack)].todo # {}
    /\ Resolved(processSubstitution(Resolver, NextIndex(rstack[Len(rstack)].todo)))

ResolveReturn ==
    /\ phase = "resolve"
    /\ rstack # <<>>
    /\ rstack[Len(rstack)].todo = {}
    /\ rstack' = Front(rstack)
    /\ IF Len(rstack) = 1
       THEN phase' = "done" /\ result' = Success
       ELSE UNCHANGED <<phase, result>>
    /\ UNCHANGED <<doc, inc, scanners, stack, ret, heap>>

Next ==
    \/ ParseStart
    \/ ParseArrayDone
    \/ ParseObjectDone
    \/ ObjectStart
    \/ ObjectLoopExit
    \/ ObjectStatement
    \/ ObjectInclude
    \/ ObjectIncluded
    \/ ObjectNested
    \/ ObjectValue
    \/ ObjectPlusValue
    \/ ArrayStart
    \/ ArrayLoop
    \/ ArrayValue
    \/ SubstitutionStart
    \/ SubstitutionLoop
    \/ SubstitutionBody
    \/ ResolveField
    \/ ResolveElement
    \/ ResolveReturn

Spec == Init /\ [][Next]_vars

(* parse() runs on one control path with nothing to wait for: a step that  *)
(* can be taken is taken.                                                  *)
LiveSpec == Spec /\ WF_vars(Next)

-----------------------------------------------------------------------------
(* What the claims speak of.                                               *)

Done == phase = "done"

(* parse() returned a Config whose tree is v.                              *)
Returned(v) == result = Success /\ heap = InMemory(v)

(* parse() returned the error e and no Config.                             *)
Refused(e) == result = Failure(e) /\ heap = NoHeap

(* The deep merge of two objects, as the specification words it: the keys  *)
(* of one side only are kept as they are, a key of both sides is merged    *)
(* when both values are objects and takes the incoming value otherwise.    *)
RECURSIVE DeepMerge(_, _)
DeepMerge(old, new) ==
    NewConfigObject(
        [k \in (DOMAIN old.items) \cup (DOMAIN new.items) |->
            IF k \notin DOMAIN new.items THEN old.items[k]
            ELSE IF k \notin DOMAIN old.items THEN new.items[k]
            ELSE IF old.items[k].t = "object" /\ new.items[k].t = "object"
            THEN DeepMerge(old.items[k], new.items[k])
            ELSE new.items[k]])

AssignedTwice(v1, v2) ==
    IF v1.t = "object" /\ v2.t = "object" THEN DeepMerge(v1, v2) ELSE v2

(* The addresses the root reaches.                                         *)
Children(h, addr) ==
    CASE h[addr].t = "object" -> {h[addr].items[k] : k \in DOMAIN h[addr].items}
      [] h[addr].t = "array" -> {h[addr].vals[i] : i \in DOMAIN h[addr].vals}
      [] OTHER -> {}

RECURSIVE ReachFrom(_, _, _)
ReachFrom(h, frontier, seen) ==
    IF frontier = {} THEN seen
    ELSE LET next == (UNION {Children(h, a) : a \in frontier}) \ (seen \cup frontier)
         IN ReachFrom(h, next, seen \cup frontier)

Reachable(h) == ReachFrom(h, {RootAddress}, {})

(* The tree at an address, unfolded to a depth (a resolved tree may hold   *)
(* itself).                                                                *)
UnfoldDepth == 5

RECURSIVE Unfold(_, _, _)
Unfold(h, addr, d) ==
    IF d = 0 THEN [t |-> "deeper"]
    ELSE CASE h[addr].t = "object" ->
                NewConfigObject([k \in DOMAIN h[addr].items |->
                                    Unfold(h, h[addr].items[k], d - 1)])
           [] h[addr].t = "array" ->
                NewConfigArray([i \in DOMAIN h[addr].vals |->
                                    Unfold(h, h[addr].vals[i], d - 1)])
           [] OTHER -> h[addr]

(* resolveSubstitutions run to its end from a resolver state, the range    *)
(* over a map taking the keys in one fixed order.                          *)
RECURSIVE RunResolver(_)
RunResolver(r) ==
    IF r.err # "" \/ r.rs = <<>> THEN r
    ELSE LET top == r.rs[Len(r.rs)] IN
         IF top.todo = {} THEN RunResolver([r EXCEPT !.rs = Front(r.rs)])
         ELSE IF r.h[top.addr].t = "object"
         THEN RunResolver(processSubstitution(r, CHOOSE k \in top.todo : TRUE))
         ELSE RunResolver(processSubstitution(r, NextIndex(top.todo)))

(* What the caller of parse() sees of a resolver's end: that it failed, or *)
(* the tree.                                                               *)
Outcome(r) ==
    IF r.err # "" THEN [t |-> "error"] ELSE Unfold(r.h, RootAddress, UnfoldDepth)

KeyErrors == {"invalidKey", "leadingPeriod", "trailingPeriod", "adjacentPeriods"}

HasForbiddenSegment(path) ==
    \E i \in DOMAIN path : path[i] \in forbiddenCharacters \ {dotToken}

-----------------------------------------------------------------------------
(* C1: a dotted key k1.k2 = v builds the nested objects for that one       *)
(* assignment only: the keys that follow it in the enclosing object stay   *)
(* fields of the enclosing object, and the closing brace of the enclosing  *)
(* object closes that object.                                              *)
C1_DottedKeyTakesItsValueOnly ==
    Done => \A c \in SiblingCases : c.toks = doc =>
        Returned(IF c.sibling
                 THEN NewConfigObject(Put(Chain(c.ks, One).items, "c", Two))
                 ELSE Chain(c.ks, One))

(* C2: parse() returns, a Config or an error, on every document.           *)
C2_ParseReturns == <>Done

(* C3: a Config that parse() returns holds no substitution, except an      *)
(* optional one whose path names nothing in the tree.                      *)
C3_NoSubstitutionLeft ==
    (Done /\ result.ok /\ heap[RootAddress].t = "object") =>
        \A addr \in Reachable(heap) :
            heap[addr].t = "substitution" =>
                heap[addr].optional /\ find(heap, heap[addr].path) = {}

(* C4: a forbidden character where a key or a segment of a substitution    *)
(* path is read makes the parse fail with a key error (the invalid key     *)
(* error, or one of the period errors when the character reads as a        *)
(* misplaced period), wherever in the key or the path it stands; no        *)
(* returned Config has a forbidden character as a key or in a path.        *)
C4_ForbiddenCharacterRefused ==
    Done =>
        /\ \A c \in ForbiddenKeyCases \cup ForbiddenPathCases : c.toks = doc =>
               ~result.ok /\ result.err \in KeyErrors
        /\ result.ok => \A addr \in DOMAIN heap :
               /\ heap[addr].t = "object" =>
                      (DOMAIN heap[addr].items) \cap forbiddenCharacters = {}
               /\ heap[addr].t = "substitution" => ~HasForbiddenSegment(heap[addr].path)

(* C5: k1.k2. ... .kn = v and k1 { k2 { ... kn = v } } give the same       *)
(* Config: the chain of objects k1 -> k2 -> ... -> kn that ends in v.      *)
C5_DottedKeyIsNestedObjects ==
    Done => \A c \in DottedCases : c.toks = doc => Returned(Chain(c.ks, c.v))

C5_Witness ==
    /\ Done
    /\ result = Success
    /\ \E c \in DottedCases : c.toks = doc /\ c.form = "dotted" /\ Len(c.ks) = MaxDepth
    /\ \E k \in Keys : heap[<<k>>].t = "object"

(* C6: a key assigned twice with = or : holds the deep merge of the two    *)
(* values when both are objects, and the second value otherwise.           *)
C6_DuplicateKeyMergesOrReplaces ==
    Done => \A c \in DuplicateCases : c.toks = doc =>
        Returned(Obj1("a", AssignedTwice(c.v1, c.v2)))

C6_Witness ==
    /\ Done
    /\ result = Success
    /\ \E c \in DuplicateCases :
           /\ c.toks = doc
           /\ c.v1 = Obj1("x", Obj1("p", One))
           /\ c.v2 = Obj2("x", Obj1("q", Two), "y", Two)
    /\ DOMAIN heap[<<"a", "x">>].items = {"p", "q"}

(* C7: key += v on an absent key stores the array [v]; on an array it      *)
(* appends v; on any other value the parse fails with the type error and   *)
(* returns no Config.                                                      *)
C7_PlusEqualsAppends ==
    Done => \A c \in AppendCases : c.toks = doc =>
        IF c.start = Nil THEN Returned(Obj1("a", NewConfigArray(c.vs)))
        ELSE IF c.start.t = "array"
        THEN Returned(Obj1("a", NewConfigArray(c.start.vals \o c.vs)))
        ELSE Refused("notAnArray")

C7_Witness ==
    /\ Done
    /\ result = Success
    /\ \E c \in AppendCases :
           c.toks = doc /\ c.start = NewConfigArray(<<One>>) /\ Len(c.vs) = MaxAppend
    /\ Len(heap[<<"a">>].vals) = MaxAppend + 1

C7_RefusedWitness ==
    /\ Done
    /\ \E c \in AppendCases : c.toks = doc /\ c.start = Obj1("x", One)
    /\ Refused("notAnArray")

(* C8: a key that holds an object and is declared again, in the dotted or  *)
(* the braced form, holds the merge of the two declarations: in the Config *)
(* that parse() returns the keys of the earlier declaration are still      *)
(* there.                                                                  *)
C8_RedeclaredObjectMerges ==
    (Done /\ result.ok) => \A c \in RedeclareCases : c.toks = doc =>
        heap = InMemory(Obj1("a", Obj2("x", One, "y", Two)))

(* C9: every include directive of an object is resolved and the root       *)
(* object of its resource is merged into the object; the parse then goes   *)
(* on with what follows the directive: a key, another directive, or the    *)
(* closing brace.                                                          *)
C9_IncludeMergedThenParseGoesOn ==
    Done => \A c \in IncludeCases, i \in IncludedCases :
        (c.toks = doc /\ i.toks = inc /\ i.root # Nil) =>
            LET before == IF c.before THEN Obj1("a", Obj1("x", One))
                          ELSE NewConfigObject(EmptyItems)
                merged == DeepMerge(before, i.root)
            IN Returned(IF c.after THEN NewConfigObject(Put(merged.items, "b", Two))
                        ELSE merged)

(* C10: the outcome of resolving the substitutions of an object does not   *)
(* depend on the order in which its fields are visited.                    *)
C10_ResolutionOrderIndependent ==
    (phase = "resolve" /\ rstack # <<>>) =>
        LET top == rstack[Len(rstack)] IN
        heap[top.addr].t = "object" =>
            \A k1 \in top.todo, k2 \in top.todo :
                Outcome(RunResolver(processSubstitution(Resolver, k1)))
                    = Outcome(RunResolver(processSubstitution(Resolver, k2)))

=============================================================================
